---- MODULE Spec2Model ----
(***************************************************************************)
(* Multi-tenant document backend: organization memberships, the permission *)
(* functions of organizations/permissions.py, the GraphQL mutations of     *)
(* organizations/schema.py and documents/schema.py, the MCP context layer  *)
(* (documents/mcp_server.py) and the LLM service (documents/llm_service.py)*)
(*                                                                         *)
(* Database tables are variables.  A GraphQL mutation that runs without    *)
(* waiting on the network is one action; askDocumentAiQuestion, which      *)
(* blocks on the provider, is a sequence of steps held in req.             *)
(* Python strings that are trimmed are sequences of one-character strings. *)
(***************************************************************************)
EXTENDS Integers, Sequences, FiniteSets, TLC

\* ------------------------------------------------------------------ bounds
\* Document rows ever created, AIConversation rows held at once
MaxDocs == 1
MaxConvs == 2

\* the registered users; request.user of an unauthenticated request is Anonymous
Users == {1, 2}
Anonymous == 0
Callers == Users \cup {Anonymous}
\* the organizations created at installation
OrgIds == {1, 2}
\* organization ids a request may name: the existing ones and one that never existed
OrgArgs == OrgIds \cup {3}
DocIds == 1..MaxDocs
DocArgs == 1..(MaxDocs + 1)

\* Python's None where an id is expected (primary keys start at 1)
None == 0
SP == " "

\* ------------------------------------------------------------------ strings
RECURSIVE lstrip(_)
lstrip(s) == IF s # <<>> /\ Head(s) = SP THEN lstrip(Tail(s)) ELSE s

RECURSIVE rstrip(_)
rstrip(s) == IF s # <<>> /\ s[Len(s)] = SP THEN rstrip(SubSeq(s, 1, Len(s) - 1)) ELSE s

strip(s) == rstrip(lstrip(s))

\* inputs of the requests
TitleArgs == {<<>>, <<SP, "T">>}
ContentArgs == {<<SP>>, <<"C">>}
QuestionArgs == {<<SP>>, <<"Q">>, <<SP, "Q", SP>>}
\* text a provider backend can return, before the adapter trims it
ProviderTexts == {<<"A", SP>>, <<SP>>}
\* title and content of documents saved through the admin site
AdminTitles == {<<"T">>}
AdminContents == {<<"C">>}
\* created_by of a document saved through the admin site
AdminCreators == {None, 1}

OrgName(o) == <<"org", o>>
EmailOf(u) == <<"user", u>>
EmailArgs == {EmailOf(u) : u \in Users} \cup {<<"user", None>>}

\* OrganizationMembership.Role
ADMIN == "ADMIN"
MEMBER == "MEMBER"
Roles == {ADMIN, MEMBER}
RoleArgs == Roles \cup {"OWNER"}
NoRole == "None"

Providers == {"openai", "anthropic", "gemini"}
ProviderArgs == Providers \cup {"llama"}

\* ------------------------------------------------------------------ config/settings.py
\* os.getenv of a variable that is not set
Unset == "unset"

\* values of LLM_API_KEY, LLM_PROVIDER and LLM_MODEL in the process environment
EnvKeys == {Unset, "sk-key"}
EnvProviders == {Unset, "Anthropic", "gemini", "llama"}
EnvModels == {Unset, "", "custom-model"}
Environments == [LLM_API_KEY : EnvKeys, LLM_PROVIDER : EnvProviders, LLM_MODEL : EnvModels]

getenv(environ, name, default) == IF environ[name] = Unset THEN default ELSE environ[name]

\* str.lower on the identifiers above
lower(s) == IF s = "Anthropic" THEN "anthropic" ELSE s

\* the settings module after import, with the environment it was read from
SettingsOf(environ) ==
    [environ |-> environ,
     api_key |-> getenv(environ, "LLM_API_KEY", Unset) # Unset,
     provider |-> lower(getenv(environ, "LLM_PROVIDER", "openai")),
     model |-> getenv(environ, "LLM_MODEL", "gpt-4-turbo-preview")]

\* the model each backend adapter falls back to when self.model is empty
AdapterDefaultModel ==
    [b \in {"anthropic", "gemini"} |->
        IF b = "anthropic" THEN "claude-3-5-sonnet-20241022" ELSE "gemini-pro"]

\* the name the adapters put in front of their messages
AdapterName == [b \in Providers |-> IF b = "openai" THEN "OpenAI"
                                    ELSE IF b = "anthropic" THEN "Anthropic" ELSE "Gemini"]

\* messages of the failures a provider call can raise
ExceptionMessages == {"timed out", "rate limit"}

VARIABLES
    memberships,    \* OrganizationMembership rows: [user, org] -> sequence of the roles of the pair's rows
    organizations,  \* ids of the Organization rows
    activeOrg,      \* User.active_organization_id, None when unset
    documents,      \* Document rows
    nextDocId,      \* next primary key of Document
    conversations,  \* AIConversation rows in order of creation (created_at)
    req,            \* the askDocumentAiQuestion request in flight
    settings,       \* LLM_API_KEY, LLM_PROVIDER, LLM_MODEL as read at startup
    invites,        \* the inviteUserToOrganization requests running side by side
    resp            \* outcome of the last finished request

vars == <<memberships, organizations, activeOrg, documents, nextDocId,
          conversations, req, settings, invites, resp>>

dbvars == <<memberships, organizations, activeOrg, documents, nextDocId, conversations>>

\* a GraphQL response: the extensions code, the failure behind it, the payload
Response(op, code, err) == [op |-> op, code |-> code, err |-> err, value |-> <<>>]
Success(op, value) == [op |-> op, code |-> "OK", err |-> "none", value |-> value]

Idle == [pc |-> "idle"]

\* the requests that can run side by side, none of them started
InviteProcs == {1, 2}
NoInvites == [p \in InviteProcs |-> Idle]

\* ------------------------------------------------------------------ tables
Rows(u, o) == IF <<u, o>> \in DOMAIN memberships THEN memberships[<<u, o>>] ELSE <<>>

DocumentExists(d) == \E doc \in documents : doc.id = d
DocumentById(d) == CHOOSE doc \in documents : doc.id = d

is_authenticated(u) == u \in Users

\* ------------------------------------------------------------------ permissions.py
check_user_in_organization(u, o) == Len(Rows(u, o)) > 0

get_user_role_in_organization(u, o) ==
    IF Len(Rows(u, o)) = 0 THEN NoRole
    ELSE IF Len(Rows(u, o)) = 1 THEN Rows(u, o)[1]
    ELSE "MultipleObjectsReturned"

Granted == [ok |-> TRUE, err |-> "none"]
Denied(err) == [ok |-> FALSE, err |-> err]

require_organization_member(u, o) ==
    IF ~check_user_in_organization(u, o) THEN Denied("NotAMember") ELSE Granted

\* faulty variant: any membership passes the ADMIN check
require_organization_admin_any_member(u, o) ==
    IF get_user_role_in_organization(u, o) = NoRole THEN Denied("NotAMember") ELSE Granted

\* faulty variant: both failures raise the same error
require_organization_admin_one_message(u, o) ==
    IF get_user_role_in_organization(u, o) # ADMIN THEN Denied("NotAMember") ELSE Granted

require_organization_admin(u, o) ==
    LET role == get_user_role_in_organization(u, o) IN
    IF role = "MultipleObjectsReturned" THEN Denied("MultipleObjectsReturned")
    ELSE IF role # ADMIN
         THEN IF role = NoRole THEN Denied("NotAMember") ELSE Denied("InsufficientRole")
         ELSE Granted

\* faulty variant: the membership behind the active organization is not re-checked
require_active_organization_no_recheck(u) ==
    IF activeOrg[u] = None THEN [ok |-> FALSE, err |-> "NoActiveOrganization", value |-> None]
    ELSE [ok |-> TRUE, err |-> "none", value |-> activeOrg[u]]

require_active_organization(u) ==
    IF activeOrg[u] = None
    THEN [ok |-> FALSE, err |-> "NoActiveOrganization", value |-> None]
    ELSE LET m == require_organization_member(u, activeOrg[u]) IN
         IF ~m.ok THEN [ok |-> FALSE, err |-> m.err, value |-> None]
         ELSE [ok |-> TRUE, err |-> "none", value |-> activeOrg[u]]

get_user_active_organization(u) ==
    IF activeOrg[u] = None
    THEN [ok |-> FALSE, err |-> "NoActiveOrganization", value |-> None]
    ELSE IF Len(Rows(u, activeOrg[u])) = 0
         THEN [ok |-> FALSE, err |-> "NotAMember", value |-> None]
         ELSE IF Len(Rows(u, activeOrg[u])) > 1
              THEN [ok |-> FALSE, err |-> "MultipleObjectsReturned", value |-> None]
              ELSE [ok |-> TRUE, err |-> "none", value |-> activeOrg[u]]

require_document_access(u, o) == require_organization_member(u, o)

\* ------------------------------------------------------------------ organizations/schema.py
\* order_by('name'): organization o is named OrgName(o)
RECURSIVE OrderByName(_)
OrderByName(S) ==
    IF S = {} THEN <<>>
    ELSE LET first == CHOOSE x \in S : \A y \in S : x <= y IN
         <<first>> \o OrderByName(S \ {first})

\* faulty variant: the query answers without looking at the caller
resolve_organizations_no_authentication(u) ==
    Success("organizations",
            OrderByName({o \in organizations : Len(Rows(u, o)) > 0}))

resolve_organizations(u) ==
    IF ~is_authenticated(u) THEN Response("organizations", "UNAUTHORIZED", "Unauthenticated")
    ELSE Success("organizations",
                 OrderByName({o \in organizations : Len(Rows(u, o)) > 0}))

QueryOrganizations(u) ==
    /\ resp' = resolve_organizations(u)
    /\ UNCHANGED <<dbvars, req, settings, invites>>

SetActiveOrganizationOutcome(u, o) ==
    IF ~is_authenticated(u) THEN Response("setActiveOrganization", "UNAUTHORIZED", "Unauthenticated")
    ELSE IF ~check_user_in_organization(u, o)
    THEN Response("setActiveOrganization", "PERMISSION_DENIED", "NotAMember")
    ELSE IF o \notin organizations
    THEN Response("setActiveOrganization", "NOT_FOUND", "OrganizationNotFound")
    ELSE Success("setActiveOrganization", <<o>>)

\* faulty variant: the id is saved before the membership check decides
SavedActiveOrganization_any(u, o, outcome) == [activeOrg EXCEPT ![u] = o]

\* user.active_organization_id after the request
SavedActiveOrganization(u, o, outcome) ==
    IF outcome.code = "OK" THEN [activeOrg EXCEPT ![u] = o] ELSE activeOrg

SetActiveOrganization(u, o) ==
    LET outcome == SetActiveOrganizationOutcome(u, o) IN
    /\ resp' = outcome
    /\ activeOrg' = IF is_authenticated(u) THEN SavedActiveOrganization(u, o, outcome) ELSE activeOrg
    /\ UNCHANGED <<memberships, organizations, documents, nextDocId, conversations, req, settings, invites>>

UserByEmail(e) == IF \E u \in Users : EmailOf(u) = e
                  THEN CHOOSE u \in Users : EmailOf(u) = e
                  ELSE None

InviteUserToOrganizationOutcome(u, o, email, role) ==
    IF ~is_authenticated(u) THEN Response("inviteUserToOrganization", "UNAUTHORIZED", "Unauthenticated")
    ELSE LET p == require_organization_admin(u, o) IN
    IF p.err = "MultipleObjectsReturned"
    THEN Response("inviteUserToOrganization", "NO_CODE", "MultipleObjectsReturned")
    ELSE IF ~p.ok THEN Response("inviteUserToOrganization", "PERMISSION_DENIED", p.err)
    ELSE IF o \notin organizations
    THEN Response("inviteUserToOrganization", "NOT_FOUND", "OrganizationNotFound")
    ELSE IF UserByEmail(email) = None
    THEN Response("inviteUserToOrganization", "USER_NOT_FOUND", "UserNotFound")
    ELSE IF role \notin Roles
    THEN Response("inviteUserToOrganization", "INVALID_INPUT", "InvalidRole")
    ELSE IF Len(Rows(UserByEmail(email), o)) > 1
    THEN Response("inviteUserToOrganization", "NO_CODE", "MultipleObjectsReturned")
    ELSE Success("inviteUserToOrganization",
                 <<UserByEmail(email), o, role, Len(Rows(UserByEmail(email), o)) = 0>>)

\* faulty variant: create() in place of get_or_create()
get_or_create_update_always_create(invitee, o, role) ==
    [memberships EXCEPT ![<<invitee, o>>] = Append(@, role)]

\* the membership table after get_or_create and the role update that follows it
get_or_create_update(invitee, o, role) ==
    IF Len(Rows(invitee, o)) = 0
    THEN [memberships EXCEPT ![<<invitee, o>>] = <<role>>]
    ELSE IF Rows(invitee, o)[1] # role
         THEN [memberships EXCEPT ![<<invitee, o>>] = <<role>>]
         ELSE memberships

\* faulty variant: the membership is written before the role is validated
InviteUserToOrganization_write_before_validation(u, o, email, role) ==
    LET outcome == InviteUserToOrganizationOutcome(u, o, email, role) IN
    /\ resp' = outcome
    /\ memberships' = IF outcome.code \in {"OK", "INVALID_INPUT"}
                      THEN get_or_create_update(UserByEmail(email), o, role)
                      ELSE memberships
    /\ UNCHANGED <<organizations, activeOrg, documents, nextDocId, conversations, req, settings, invites>>

InviteUserToOrganization(u, o, email, role) ==
    LET outcome == InviteUserToOrganizationOutcome(u, o, email, role) IN
    /\ resp' = outcome
    /\ memberships' = IF outcome.code = "OK"
                      THEN get_or_create_update(UserByEmail(email), o, role)
                      ELSE memberships
    /\ UNCHANGED <<organizations, activeOrg, documents, nextDocId, conversations, req, settings, invites>>

\* The same mutation step by step, for requests that run side by side.  Each
\* request is a transaction (ATOMIC_MUTATIONS): its insert or update waits in
\* write until the request returns, reads see committed rows only, and a write
\* to a pair waits for a write another request holds on that pair.
InvitePair(p) == <<invites[p].invitee, invites[p].organization>>

WriteHeldByOther(p) ==
    \E q \in InviteProcs \ {p} :
        /\ invites[q].pc = "commit"
        /\ invites[q].write # "none"
        /\ InvitePair(q) = InvitePair(p)

\* faulty variant: the table has no unique constraint on (user, organization)
unique_user_organization_membership_absent(invitee, o) == FALSE

\* does an INSERT for the pair violate unique_user_organization_membership
unique_user_organization_membership(invitee, o) == Len(Rows(invitee, o)) > 0

\* authentication, permission check, organization and user lookup, role validation
InviteBegin(p, u, o, email, role) ==
    LET outcome == InviteUserToOrganizationOutcome(u, o, email, role) IN
    /\ invites[p].pc = "idle"
    /\ IF outcome.code = "OK"
       THEN /\ invites' = [invites EXCEPT ![p] =
                    [pc |-> "get", invitee |-> UserByEmail(email), organization |-> o,
                     role |-> role, seen |-> NoRole, created |-> FALSE, retried |-> FALSE,
                     write |-> "none"]]
            /\ UNCHANGED resp
       ELSE /\ resp' = outcome
            /\ UNCHANGED invites
    /\ UNCHANGED <<dbvars, req, settings>>

\* get_or_create: the lookup
InviteGet(p) ==
    /\ invites[p].pc = "get"
    /\ invites' = IF Len(Rows(invites[p].invitee, invites[p].organization)) = 0
                  THEN [invites EXCEPT ![p].pc = "create"]
                  ELSE [invites EXCEPT ![p].pc = "update",
                                       ![p].seen = Rows(invites[p].invitee, invites[p].organization)[1]]
    /\ UNCHANGED <<dbvars, req, settings, resp>>

\* get_or_create: the INSERT, and the second lookup after an IntegrityError
InviteCreate(p) ==
    /\ invites[p].pc = "create"
    /\ ~WriteHeldByOther(p)
    /\ invites' = IF unique_user_organization_membership(invites[p].invitee, invites[p].organization)
                  THEN [invites EXCEPT ![p].pc = "update", ![p].retried = TRUE,
                                       ![p].seen = Rows(invites[p].invitee, invites[p].organization)[1]]
                  ELSE [invites EXCEPT ![p].pc = "commit", ![p].created = TRUE,
                                       ![p].write = "insert"]
    /\ UNCHANGED <<dbvars, req, settings, resp>>

\* the role update of a membership that already existed
InviteUpdate(p) ==
    /\ invites[p].pc = "update"
    /\ invites[p].seen # invites[p].role => ~WriteHeldByOther(p)
    /\ invites' = IF invites[p].seen # invites[p].role
                  THEN [invites EXCEPT ![p].pc = "commit", ![p].write = "update"]
                  ELSE [invites EXCEPT ![p].pc = "commit"]
    /\ UNCHANGED <<dbvars, req, settings, resp>>

\* the request returns and its transaction commits
InviteCommit(p) ==
    /\ invites[p].pc = "commit"
    /\ memberships' =
            IF invites[p].write = "insert"
            THEN [memberships EXCEPT ![InvitePair(p)] = Append(@, invites[p].role)]
            ELSE IF invites[p].write = "update"
            THEN [memberships EXCEPT ![InvitePair(p)] = [i \in 1..Len(@) |-> invites[p].role]]
            ELSE memberships
    /\ resp' = Success("inviteUserToOrganization",
                       <<invites[p].invitee, invites[p].organization, invites[p].role,
                         invites[p].created>>)
    /\ invites' = [invites EXCEPT ![p].pc = "done"]
    /\ UNCHANGED <<organizations, activeOrg, documents, nextDocId, conversations, req, settings>>

\* ------------------------------------------------------------------ admin site
AdminAddMembership(u, o, role) ==
    /\ o \in organizations
    /\ Len(Rows(u, o)) = 0
    /\ memberships' = [memberships EXCEPT ![<<u, o>>] = <<role>>]
    /\ UNCHANGED <<organizations, activeOrg, documents, nextDocId, conversations, req, settings, invites, resp>>

AdminDeleteMembership(u, o) ==
    /\ Len(Rows(u, o)) > 0
    /\ memberships' = [memberships EXCEPT ![<<u, o>>] = <<>>]
    /\ UNCHANGED <<organizations, activeOrg, documents, nextDocId, conversations, req, settings, invites, resp>>

AdminAddDocument(o, title, content, creator) ==
    /\ o \in organizations
    /\ nextDocId <= MaxDocs
    /\ documents' = documents \cup {[id |-> nextDocId, title |-> title, content |-> content,
                                     organization_id |-> o, created_by |-> creator]}
    /\ nextDocId' = nextDocId + 1
    /\ UNCHANGED <<memberships, organizations, activeOrg, conversations, req, settings, invites, resp>>

\* the change form of a document: a new title and content
AdminEditDocument(d, title, content) ==
    /\ DocumentExists(d)
    /\ documents' = {IF doc.id = d THEN [doc EXCEPT !.title = title, !.content = content] ELSE doc
                        : doc \in documents}
    /\ documents' # documents
    /\ UNCHANGED <<memberships, organizations, activeOrg, nextDocId, conversations, req, settings, invites, resp>>

AdminDeleteDocument(d) ==
    /\ DocumentExists(d)
    /\ documents' = {doc \in documents : doc.id # d}
    /\ conversations' = SelectSeq(conversations, LAMBDA c : c.document # d)
    /\ UNCHANGED <<memberships, organizations, activeOrg, nextDocId, req, settings, invites, resp>>

AdminDeleteOrganization(o) ==
    /\ o \in organizations
    /\ organizations' = organizations \ {o}
    /\ memberships' = [k \in DOMAIN memberships |-> IF k[2] = o THEN <<>> ELSE memberships[k]]
    /\ documents' = {doc \in documents : doc.organization_id # o}
    /\ conversations' = SelectSeq(conversations,
                            LAMBDA c : \E doc \in documents : doc.id = c.document /\ doc.organization_id # o)
    /\ UNCHANGED <<activeOrg, nextDocId, req, settings, invites, resp>>

\* ------------------------------------------------------------------ documents/mcp_server.py
get_document_context(d) ==
    IF DocumentExists(d)
    THEN LET document == DocumentById(d) IN
         [type |-> "document_context",
          document_id |-> document.id,
          title |-> document.title,
          content |-> document.content,
          organization_id |-> document.organization_id,
          organization_name |-> OrgName(document.organization_id),
          created_by |-> IF document.created_by # None THEN EmailOf(document.created_by) ELSE None]
    ELSE [type |-> "error", message |-> <<"Document", d, "not found">>]

format_context_for_mcp(context) ==
    IF context.type = "document_context"
    THEN <<"Document Context (MCP):", "Title:", context.title, "Content:", context.content,
           "Metadata:", "Document ID:", context.document_id,
           "Organization ID:", context.organization_id,
           "Organization Name:", context.organization_name,
           "Created By:", context.created_by>>
    ELSE context.message

Raised(exception, message) == [raised |-> TRUE, exception |-> exception, value |-> message]
Returned(value) == [raised |-> FALSE, exception |-> "none", value |-> value]

\* faulty variant: the error result is formatted and returned
provide_document_context_never_raises(d) ==
    Returned(format_context_for_mcp(get_document_context(d)))

provide_document_context(d) ==
    LET context == get_document_context(d) IN
    IF context.type = "error"
    THEN Raised("ValueError", context.message)
    ELSE Returned(format_context_for_mcp(context))

\* ------------------------------------------------------------------ documents/schema.py
\* names documents/schema.py imports from organizations.permissions
documents_schema_imports ==
    {"require_active_organization", "require_organization_member",
     "require_document_access", "PermissionError"}

CreateDocumentOutcome(u, title, content) ==
    IF ~is_authenticated(u) THEN Response("createDocument", "UNAUTHORIZED", "Unauthenticated")
    ELSE LET active == require_active_organization(u) IN
    IF ~active.ok THEN Response("createDocument", "PERMISSION_DENIED", active.err)
    ELSE IF "require_organization_admin" \notin documents_schema_imports
    THEN Response("createDocument", "NO_CODE", "NameError")
    ELSE LET p == require_organization_admin(u, active.value) IN
    IF p.err = "MultipleObjectsReturned"
    THEN Response("createDocument", "NO_CODE", "MultipleObjectsReturned")
    ELSE IF ~p.ok THEN Response("createDocument", "PERMISSION_DENIED", p.err)
    ELSE IF strip(title) = <<>> THEN Response("createDocument", "INVALID_INPUT", "EmptyTitle")
    ELSE IF strip(content) = <<>> THEN Response("createDocument", "INVALID_INPUT", "EmptyContent")
    ELSE Success("createDocument", <<strip(title), strip(content), active.value, u>>)

CreateDocument(u, title, content) ==
    LET outcome == CreateDocumentOutcome(u, title, content) IN
    /\ outcome.code = "OK" => nextDocId <= MaxDocs
    /\ resp' = outcome
    /\ IF outcome.code = "OK"
       THEN /\ documents' = documents \cup
                    {[id |-> nextDocId, title |-> strip(title), content |-> strip(content),
                      organization_id |-> require_active_organization(u).value, created_by |-> u]}
            /\ nextDocId' = nextDocId + 1
       ELSE UNCHANGED <<documents, nextDocId>>
    /\ UNCHANGED <<memberships, organizations, activeOrg, conversations, req, settings, invites>>

\* order_by('-created_at') on documents: primary keys are given in order of creation
RECURSIVE NewestFirst(_)
NewestFirst(S) ==
    IF S = {} THEN <<>>
    ELSE LET newest == CHOOSE x \in S : \A y \in S : y.id <= x.id IN
         <<newest>> \o NewestFirst(S \ {newest})

\* order_by('-created_at') on conversations, which are kept oldest first
Reverse(seq) == [i \in 1..Len(seq) |-> seq[Len(seq) + 1 - i]]

\* faulty variant: the documents of every organization the user belongs to
resolve_documents_all_memberships(u) ==
    IF ~is_authenticated(u) THEN Response("documents", "UNAUTHORIZED", "Unauthenticated")
    ELSE LET active == require_active_organization(u) IN
    IF ~active.ok THEN Response("documents", "PERMISSION_DENIED", active.err)
    ELSE Success("documents",
                 NewestFirst({doc \in documents : check_user_in_organization(u, doc.organization_id)}))

resolve_documents(u) ==
    IF ~is_authenticated(u) THEN Response("documents", "UNAUTHORIZED", "Unauthenticated")
    ELSE LET active == require_active_organization(u) IN
    IF ~active.ok THEN Response("documents", "PERMISSION_DENIED", active.err)
    ELSE LET p == require_organization_member(u, active.value) IN
    IF ~p.ok THEN Response("documents", "PERMISSION_DENIED", p.err)
    ELSE Success("documents",
                 NewestFirst({doc \in documents : doc.organization_id = active.value}))

\* faulty variant: the refusal names the document
resolve_document_title_in_denial(u, d) ==
    IF ~is_authenticated(u) THEN Response("document", "UNAUTHORIZED", "Unauthenticated")
    ELSE IF ~DocumentExists(d) THEN Response("document", "NOT_FOUND", "DocumentNotFound")
    ELSE LET p == require_document_access(u, DocumentById(d).organization_id) IN
    IF ~p.ok THEN Response("document", "PERMISSION_DENIED", <<p.err, DocumentById(d).title>>)
    ELSE Success("document", DocumentById(d))

\* faulty variant: the document is returned without the membership check
resolve_document_no_access_check(u, d) ==
    IF ~is_authenticated(u) THEN Response("document", "UNAUTHORIZED", "Unauthenticated")
    ELSE IF ~DocumentExists(d) THEN Response("document", "NOT_FOUND", "DocumentNotFound")
    ELSE Success("document", DocumentById(d))

resolve_document(u, d) ==
    IF ~is_authenticated(u) THEN Response("document", "UNAUTHORIZED", "Unauthenticated")
    ELSE IF ~DocumentExists(d) THEN Response("document", "NOT_FOUND", "DocumentNotFound")
    ELSE LET p == require_document_access(u, DocumentById(d).organization_id) IN
    IF ~p.ok THEN Response("document", "PERMISSION_DENIED", p.err)
    ELSE Success("document", DocumentById(d))

\* faulty variant: the entries are returned in the order they were written
resolve_ai_conversations_oldest_first(u, d) ==
    IF ~is_authenticated(u) THEN Response("aiConversations", "UNAUTHORIZED", "Unauthenticated")
    ELSE IF ~DocumentExists(d) THEN Response("aiConversations", "NOT_FOUND", "DocumentNotFound")
    ELSE LET p == require_document_access(u, DocumentById(d).organization_id) IN
    IF ~p.ok THEN Response("aiConversations", "PERMISSION_DENIED", p.err)
    ELSE Success("aiConversations", SelectSeq(conversations, LAMBDA c : c.document = d))

resolve_ai_conversations(u, d) ==
    IF ~is_authenticated(u) THEN Response("aiConversations", "UNAUTHORIZED", "Unauthenticated")
    ELSE IF ~DocumentExists(d) THEN Response("aiConversations", "NOT_FOUND", "DocumentNotFound")
    ELSE LET p == require_document_access(u, DocumentById(d).organization_id) IN
    IF ~p.ok THEN Response("aiConversations", "PERMISSION_DENIED", p.err)
    ELSE Success("aiConversations",
                 Reverse(SelectSeq(conversations, LAMBDA c : c.document = d)))

\* the three queries: they answer and change nothing
QueryDocuments(u) ==
    /\ resp' = resolve_documents(u)
    /\ UNCHANGED <<dbvars, req, settings, invites>>

QueryDocument(u, d) ==
    /\ resp' = resolve_document(u, d)
    /\ UNCHANGED <<dbvars, req, settings, invites>>

QueryAIConversations(u, d) ==
    /\ resp' = resolve_ai_conversations(u, d)
    /\ UNCHANGED <<dbvars, req, settings, invites>>

AskDocumentAIQuestionChecks(u, d, question) ==
    IF ~is_authenticated(u) THEN Response("askDocumentAiQuestion", "UNAUTHORIZED", "Unauthenticated")
    ELSE IF ~DocumentExists(d) THEN Response("askDocumentAiQuestion", "NOT_FOUND", "DocumentNotFound")
    ELSE LET p == require_document_access(u, DocumentById(d).organization_id) IN
    IF ~p.ok THEN Response("askDocumentAiQuestion", "PERMISSION_DENIED", p.err)
    ELSE IF strip(question) = <<>>
    THEN Response("askDocumentAiQuestion", "INVALID_INPUT", "EmptyQuestion")
    ELSE Response("askDocumentAiQuestion", "OK", "none")

\* authentication, document lookup, permission check and validation
AskBegin(u, d, question) ==
    LET outcome == AskDocumentAIQuestionChecks(u, d, question) IN
    /\ req.pc = "idle"
    /\ outcome.code = "OK" => Len(conversations) < MaxConvs
    /\ IF outcome.code = "OK"
       THEN /\ req' = [pc |-> "llm", user |-> u, document |-> d, question |-> question,
                       backend |-> "none", model |-> "none", prompt |-> <<>>, answer |-> <<>>]
            /\ UNCHANGED resp
       ELSE /\ resp' = outcome
            /\ UNCHANGED req
    /\ UNCHANGED <<dbvars, settings, invites>>

\* ------------------------------------------------------------------ documents/llm_service.py
\* faulty variant: the service is built without looking at the key
LLMServiceInit_no_check ==
    Returned([api_key |-> settings.api_key, provider |-> lower(settings.provider),
              model |-> settings.model])

\* LLMService.__init__
LLMServiceInit ==
    IF ~settings.api_key
    THEN Raised("ValueError", "LLM_API_KEY environment variable is required.")
    ELSE Returned([api_key |-> settings.api_key, provider |-> lower(settings.provider),
                   model |-> settings.model])

\* the prompt ask_question builds from the MCP context and the question
BuildPrompt(context, question) == <<context, "User Question:", question, "instructions">>

\* the model name the adapter of a backend sends
ModelSent(backend, model) ==
    IF backend = "openai" THEN model
    ELSE IF model # "" THEN model ELSE AdapterDefaultModel[backend]

\* faulty variant: an unknown provider falls back to the openai adapter
call_llm_provider_fallback(self, prompt) ==
    IF self.provider \in {"anthropic", "gemini"}
    THEN Returned([backend |-> self.provider, model |-> ModelSent(self.provider, self.model),
                   prompt |-> prompt])
    ELSE Returned([backend |-> "openai", model |-> ModelSent("openai", self.model),
                   prompt |-> prompt])

\* _call_llm_provider up to the adapter it selects
call_llm_provider(self, prompt) ==
    IF self.provider \in Providers
    THEN Returned([backend |-> self.provider, model |-> ModelSent(self.provider, self.model),
                   prompt |-> prompt])
    ELSE Raised("ValueError", <<"Unsupported LLM provider:", self.provider>>)

\* faulty variant: a missing document is sent on as an empty context
ask_question_no_abort(self, d, question) ==
    LET mcp_context == provide_document_context(d) IN
    call_llm_provider(self, BuildPrompt(IF mcp_context.raised THEN <<>> ELSE mcp_context.value,
                                        question))

\* ask_question up to the backend call
ask_question(self, d, question) ==
    LET mcp_context == provide_document_context(d) IN
    IF mcp_context.raised THEN mcp_context
    ELSE call_llm_provider(self, BuildPrompt(mcp_context.value, question))

\* LLMService() and ask_question up to the backend call, with the failure named
AskOutcomeBeforeCall(d, question) ==
    IF LLMServiceInit.raised THEN Raised("ValueError", "MissingApiKey")
    ELSE LET context == provide_document_context(d)
             outcome == ask_question(LLMServiceInit.value, d, question) IN
    IF outcome.raised
    THEN IF context.raised THEN Raised("ValueError", "ContextUnavailable")
         ELSE Raised("ValueError", "UnsupportedProvider")
    ELSE Returned(outcome.value)

\* str(e) of what LLMService() or ask_question raised before the backend call
MessageBeforeCall(d, question) ==
    IF LLMServiceInit.raised THEN LLMServiceInit.value
    ELSE ask_question(LLMServiceInit.value, d, question).value

AskDispatch ==
    LET outcome == AskOutcomeBeforeCall(req.document, strip(req.question)) IN
    /\ req.pc = "llm"
    /\ IF outcome.raised
       THEN /\ resp' = [Response("askDocumentAiQuestion", "LLM_ERROR", outcome.value)
                            EXCEPT !.value = <<"Error calling LLM:",
                                               MessageBeforeCall(req.document, strip(req.question))>>]
            /\ req' = Idle
       ELSE /\ req' = [req EXCEPT !.pc = "calling", !.backend = outcome.value.backend,
                                  !.model = outcome.value.model,
                                  !.prompt = outcome.value.prompt]
            /\ UNCHANGED resp
    /\ UNCHANGED <<dbvars, settings, invites>>

\* what a backend call can do: return text, find its client library missing, or fail
BackendResults == {[kind |-> "text", text |-> t] : t \in ProviderTexts}
                    \cup {[kind |-> "ImportError", text |-> <<>>]}
                    \cup {[kind |-> "Exception", text |-> <<m>>] : m \in ExceptionMessages}

\* faulty variant: the adapter wraps a missing library like any other failure
CallBackend_one_handler(backend, result) ==
    IF result.kind \in {"ImportError", "Exception"}
    THEN Raised("Exception", <<AdapterName[backend], "API error:">> \o result.text)
    ELSE Returned(strip(result.text))

\* _call_openai, _call_anthropic, _call_gemini
CallBackend(backend, result) ==
    IF result.kind = "ImportError"
    THEN Raised("ImportError", <<AdapterName[backend], "package not installed.">>)
    ELSE IF result.kind = "Exception"
    THEN Raised("Exception", <<AdapterName[backend], "API error:">> \o result.text)
    ELSE Returned(strip(result.text))

\* faulty variant: a failed provider call is treated as an empty answer
AskProviderReturn_swallow_errors(result) ==
    /\ req.pc = "calling"
    /\ req' = [req EXCEPT !.pc = "persist", !.answer = strip(result.text)]
    /\ UNCHANGED resp
    /\ UNCHANGED <<dbvars, settings, invites>>

\* faulty variant: a failed provider call is sent to the provider again
AskProviderReturn_retry(result) ==
    LET outcome == CallBackend(req.backend, result) IN
    /\ req.pc = "calling"
    /\ IF outcome.raised
       THEN /\ req' = [req EXCEPT !.pc = "llm"]
            /\ UNCHANGED resp
       ELSE /\ req' = [req EXCEPT !.pc = "persist", !.answer = outcome.value]
            /\ UNCHANGED resp
    /\ UNCHANGED <<dbvars, settings, invites>>

\* the response AskDocumentAIQuestion.mutate raises for what the service raised
ServiceFailure(outcome) ==
    IF outcome.exception = "ImportError"
    THEN [Response("askDocumentAiQuestion", "NOT_IMPLEMENTED", "ProviderUnavailable")
            EXCEPT !.value = <<"LLM service not yet implemented.">>]
    ELSE [Response("askDocumentAiQuestion", "LLM_ERROR", "ProviderError")
            EXCEPT !.value = <<"Error calling LLM:", outcome.value>>]

\* the provider call returns into AskDocumentAIQuestion.mutate
AskProviderReturn(result) ==
    LET outcome == CallBackend(req.backend, result) IN
    /\ req.pc = "calling"
    /\ IF outcome.raised
       THEN /\ resp' = ServiceFailure(outcome)
            /\ req' = Idle
       ELSE /\ req' = [req EXCEPT !.pc = "persist", !.answer = outcome.value]
            /\ UNCHANGED resp
    /\ UNCHANGED <<dbvars, settings, invites>>

\* faulty variant: the question is stored untrimmed
NewConversation_raw_question(r) ==
    [document |-> r.document, user |-> r.user, question |-> r.question, answer |-> r.answer]

\* the row AIConversation.objects.create writes
NewConversation(r) ==
    [document |-> r.document, user |-> r.user, question |-> strip(r.question), answer |-> r.answer]

\* faulty variant: the conversation table has no foreign key to the document
document_foreign_key_absent(d) == TRUE

\* AIConversation.document: the row is accepted only while the document exists
document_foreign_key(d) == DocumentExists(d)

\* faulty variant: the user's earlier entry on the document is overwritten
StoredConversations_update_or_create(r) ==
    IF \E i \in 1..Len(conversations) :
            conversations[i].document = r.document /\ conversations[i].user = r.user
    THEN [i \in 1..Len(conversations) |->
            IF conversations[i].document = r.document /\ conversations[i].user = r.user
            THEN NewConversation(r) ELSE conversations[i]]
    ELSE Append(conversations, NewConversation(r))

\* the conversation table after AIConversation.objects.create
StoredConversations(r) == Append(conversations, NewConversation(r))

AskPersist ==
    /\ req.pc = "persist"
    /\ IF document_foreign_key(req.document)
       THEN /\ conversations' = StoredConversations(req)
            /\ resp' = Success("askDocumentAiQuestion", NewConversation(req))
       ELSE /\ resp' = Response("askDocumentAiQuestion", "NO_CODE", "IntegrityError")
            /\ UNCHANGED conversations
    /\ req' = Idle
    /\ UNCHANGED <<memberships, organizations, activeOrg, documents, nextDocId, settings, invites>>

\* ------------------------------------------------------------------ specification
SettingsArgs == {SettingsOf(environ) : environ \in Environments}

NoResponse == Response("none", "none", "none")

\* the database as the migrations leave it, with the organizations and users in place
Init ==
    /\ memberships = [k \in Users \X OrgIds |-> <<>>]
    /\ organizations = OrgIds
    /\ activeOrg = [u \in Users |-> None]
    /\ documents = {}
    /\ nextDocId = 1
    /\ conversations = <<>>
    /\ req = Idle
    /\ settings \in SettingsArgs
    /\ invites = NoInvites
    /\ resp = NoResponse

OrganizationRequests ==
    \/ \E u \in Callers, o \in OrgArgs : SetActiveOrganization(u, o)
    \/ \E u \in Callers, o \in OrgArgs, e \in EmailArgs, r \in RoleArgs : InviteUserToOrganization(u, o, e, r)
    \/ \E u \in Callers, t \in TitleArgs, c \in ContentArgs : CreateDocument(u, t, c)

MembershipAdmin ==
    \/ \E u \in Users, o \in OrgIds, r \in Roles : AdminAddMembership(u, o, r)
    \/ \E u \in Users, o \in OrgIds : AdminDeleteMembership(u, o)
    \/ \E o \in OrgIds : AdminDeleteOrganization(o)

QuestionRequests ==
    \/ \E u \in Callers, d \in DocArgs, q \in QuestionArgs : AskBegin(u, d, q)
    \/ AskDispatch
    \/ \E result \in BackendResults : AskProviderReturn(result)
    \/ AskPersist

DocumentAdmin ==
    \/ \E o \in OrgIds, t \in AdminTitles, c \in AdminContents, u \in AdminCreators :
            AdminAddDocument(o, t, c, u)
    \/ \E d \in DocIds : AdminDeleteDocument(d)

Next == OrganizationRequests \/ MembershipAdmin \/ QuestionRequests \/ DocumentAdmin

Spec == Init /\ [][Next]_vars

\* The organization side: memberships, active organizations and the requests
\* that only read or write them.
InitOrg ==
    Init /\ settings = SettingsOf([LLM_API_KEY |-> "sk-key", LLM_PROVIDER |-> Unset, LLM_MODEL |-> Unset])

NextOrg == OrganizationRequests \/ MembershipAdmin

SpecOrg == InitOrg /\ [][NextOrg]_vars

\* The document side, started from a membership table the organization side
\* reaches: user 1 is ADMIN of organization 1 and MEMBER of organization 2,
\* user 2 is MEMBER of organization 1 and no member of organization 2.
DocMemberships ==
    [k \in Users \X OrgIds |->
        IF k = <<1, 1>> THEN <<ADMIN>>
        ELSE IF k = <<1, 2>> \/ k = <<2, 1>> THEN <<MEMBER>>
        ELSE <<>>]

\* one supported and one unsupported provider identifier, LLM_MODEL left unset
DocSettings ==
    {x \in SettingsArgs : x.provider \in {"openai", "llama"} /\ x.environ.LLM_MODEL = Unset}

InitDoc ==
    /\ memberships = DocMemberships
    /\ organizations = OrgIds
    /\ activeOrg = [u \in Users |-> None]
    /\ documents = {}
    /\ nextDocId = 1
    /\ conversations = <<>>
    /\ req = Idle
    /\ settings \in DocSettings
    /\ invites = NoInvites
    /\ resp = NoResponse

NextDoc ==
    \/ QuestionRequests
    \/ DocumentAdmin
    \/ \E u \in Users, o \in OrgIds : AdminDeleteMembership(u, o)

SpecDoc == InitDoc /\ [][NextDoc]_vars

\* The LLM service under every configuration the environment can give it, with
\* the membership table held fixed.
InitLLM ==
    /\ memberships = DocMemberships
    /\ organizations = OrgIds
    /\ activeOrg = [u \in Users |-> None]
    /\ documents = {}
    /\ nextDocId = 1
    /\ conversations = <<>>
    /\ req = Idle
    /\ settings \in SettingsArgs
    /\ invites = NoInvites
    /\ resp = NoResponse

NextLLM == QuestionRequests \/ DocumentAdmin

SpecLLM == InitLLM /\ [][NextLLM]_vars

Queries ==
    \/ \E u \in Callers : QueryDocuments(u)
    \/ \E u \in Callers, d \in DocArgs : QueryDocument(u, d)
    \/ \E u \in Callers, d \in DocArgs : QueryAIConversations(u, d)

\* The queries next to the question requests: one configuration, both users
\* with organization 1 set active, memberships and documents coming and going.
InitAccess ==
    /\ memberships = DocMemberships
    /\ organizations = OrgIds
    /\ activeOrg = [u \in Users |-> 1]
    /\ documents = {}
    /\ nextDocId = 1
    /\ conversations = <<>>
    /\ req = Idle
    /\ settings = SettingsOf([LLM_API_KEY |-> "sk-key", LLM_PROVIDER |-> Unset, LLM_MODEL |-> Unset])
    /\ invites = NoInvites
    /\ resp = NoResponse

NextAccess ==
    \/ Queries
    \/ QuestionRequests
    \/ DocumentAdmin
    \/ \E u \in Users, o \in OrgIds : AdminDeleteMembership(u, o)

SpecAccess == InitAccess /\ [][NextAccess]_vars

\* The documents query under changing active organizations.  It starts from a
\* database that holds a document for every id a request can name, spread over
\* the organizations.
SeedDocuments ==
    {[id |-> d, title |-> <<"T">>, content |-> <<"C">>,
      organization_id |-> IF d % 2 = 1 THEN 1 ELSE 2,
      created_by |-> IF d % 2 = 1 THEN 1 ELSE None] : d \in DocArgs}

InitTenant ==
    /\ memberships = DocMemberships
    /\ organizations = OrgIds
    /\ activeOrg = [u \in Users |-> None]
    /\ documents = SeedDocuments
    /\ nextDocId = MaxDocs + 2
    /\ conversations = <<>>
    /\ req = Idle
    /\ settings = SettingsOf([LLM_API_KEY |-> "sk-key", LLM_PROVIDER |-> Unset, LLM_MODEL |-> Unset])
    /\ invites = NoInvites
    /\ resp = NoResponse

NextTenant ==
    \/ \E u \in Callers : QueryDocuments(u)
    \/ \E u \in Callers, d \in DocArgs : QueryDocument(u, d)
    \/ \E u \in Callers, o \in OrgArgs : SetActiveOrganization(u, o)
    \/ \E u \in Users, o \in OrgIds, r \in Roles : AdminAddMembership(u, o, r)
    \/ \E u \in Users, o \in OrgIds : AdminDeleteMembership(u, o)
    \/ \E d \in DocArgs : AdminDeleteDocument(d)

SpecTenant == InitTenant /\ [][NextTenant]_vars

\* Two invitations side by side, in an installation where user 1 is the ADMIN
\* of organization 1 and nobody else is a member of anything.
InviteMemberships == [k \in Users \X OrgIds |-> IF k = <<1, 1>> THEN <<ADMIN>> ELSE <<>>]

InitInvite ==
    /\ memberships = InviteMemberships
    /\ organizations = OrgIds
    /\ activeOrg = [u \in Users |-> None]
    /\ documents = {}
    /\ nextDocId = 1
    /\ conversations = <<>>
    /\ req = Idle
    /\ settings = SettingsOf([LLM_API_KEY |-> "sk-key", LLM_PROVIDER |-> Unset, LLM_MODEL |-> Unset])
    /\ invites = NoInvites
    /\ resp = NoResponse

NextInvite ==
    \/ \E p \in InviteProcs, u \in Callers, o \in OrgArgs, e \in EmailArgs, r \in RoleArgs :
            InviteBegin(p, u, o, e, r)
    \/ \E p \in InviteProcs : InviteGet(p)
    \/ \E p \in InviteProcs : InviteCreate(p)
    \/ \E p \in InviteProcs : InviteUpdate(p)
    \/ \E p \in InviteProcs : InviteCommit(p)

SpecInvite == InitInvite /\ [][NextInvite]_vars

\* Every query and mutation of the two schemas, for members, non-members and
\* callers who are not logged in, over a database that holds document 1 of
\* organization 1; the document is deleted, and its conversations with it.
InitApi ==
    /\ memberships = DocMemberships
    /\ organizations = OrgIds
    /\ activeOrg = [u \in Users |-> None]
    /\ documents = {doc \in SeedDocuments : doc.id = 1}
    /\ nextDocId = MaxDocs + 2
    /\ conversations = <<>>
    /\ req = Idle
    /\ settings = SettingsOf([LLM_API_KEY |-> "sk-key", LLM_PROVIDER |-> Unset, LLM_MODEL |-> Unset])
    /\ invites = NoInvites
    /\ resp = NoResponse

NextApi ==
    \/ \E u \in Callers : QueryOrganizations(u)
    \/ Queries
    \/ OrganizationRequests
    \/ QuestionRequests
    \/ \E d \in DocArgs : AdminDeleteDocument(d)

SpecApi == InitApi /\ [][NextApi]_vars

\* Requests sent without a login, every query and mutation of the two schemas,
\* next to the question requests of the members and the deletion of the document.
AnonymousRequest ==
    \/ QueryOrganizations(Anonymous)
    \/ QueryDocuments(Anonymous)
    \/ \E d \in DocArgs : QueryDocument(Anonymous, d)
    \/ \E d \in DocArgs : QueryAIConversations(Anonymous, d)
    \/ \E o \in OrgArgs : SetActiveOrganization(Anonymous, o)
    \/ \E o \in OrgArgs, e \in EmailArgs, r \in RoleArgs : InviteUserToOrganization(Anonymous, o, e, r)
    \/ \E t \in TitleArgs, c \in ContentArgs : CreateDocument(Anonymous, t, c)
    \/ \E d \in DocArgs, q \in QuestionArgs : AskBegin(Anonymous, d, q)

NextAnonymous ==
    \/ AnonymousRequest
    \/ QuestionRequests
    \/ \E d \in DocArgs : AdminDeleteDocument(d)

SpecAnonymous == InitApi /\ [][NextAnonymous]_vars

\* What a document's title, content and conversations can be changed to while
\* memberships stay as they are: the three document operations for every
\* caller, with the documents edited in between.
EditTitles == {<<"T">>, <<"U">>}
EditContents == {<<"C">>, <<"D">>}

NextSecrecy ==
    \/ \E u \in Callers, d \in DocArgs : QueryDocument(u, d)
    \/ \E u \in Callers, d \in DocArgs : QueryAIConversations(u, d)
    \/ QuestionRequests
    \/ \E d \in DocArgs, t \in EditTitles, c \in EditContents : AdminEditDocument(d, t, c)

SpecSecrecy == InitTenant /\ [][NextSecrecy]_vars

\* ------------------------------------------------------------------ properties
HasRole(u, o, role) == \E i \in 1..Len(Rows(u, o)) : Rows(u, o)[i] = role
IsMember(u, o) == \E role \in Roles : HasRole(u, o, role)

\* C1: for every user, organization and membership table, require_organization_admin
\* succeeds iff the pair has a membership with role ADMIN, and
\* require_organization_member succeeds iff the pair has a membership of any role.
C1_RequireIffMembership ==
    \A u \in Users, o \in OrgArgs :
        /\ require_organization_admin(u, o).ok <=> HasRole(u, o, ADMIN)
        /\ require_organization_member(u, o).ok <=> IsMember(u, o)

\* an invitation by a plain MEMBER has just been refused while another pair is ADMIN
C1_Witness ==
    /\ resp.op = "inviteUserToOrganization"
    /\ resp.err = "InsufficientRole"
    /\ \E u \in Users, o \in OrgIds : HasRole(u, o, MEMBER) /\ ~HasRole(u, o, ADMIN)
    /\ \E u \in Users, o \in OrgIds : HasRole(u, o, ADMIN)

\* C4: createDocument by a user whose role in the active organization is MEMBER
\* fails with InsufficientRole (PERMISSION_DENIED) and creates no Document.
C4_MemberCreateDenied ==
    [][\A u \in Users, t \in TitleArgs, c \in ContentArgs :
          (CreateDocument(u, t, c) /\ activeOrg[u] # None /\ Rows(u, activeOrg[u]) = <<MEMBER>>)
          => (resp'.code = "PERMISSION_DENIED" /\ resp'.err = "InsufficientRole"
              /\ documents' = documents)]_vars

\* C5: createDocument by an ADMIN of the active organization, with a title and a
\* content that are non-empty after trimming, succeeds and creates exactly one
\* Document of that organization with the caller as creator.
C5_AdminCreates ==
    [][\A u \in Users, t \in TitleArgs, c \in ContentArgs :
          (CreateDocument(u, t, c) /\ activeOrg[u] # None /\ Rows(u, activeOrg[u]) = <<ADMIN>>
              /\ strip(t) # <<>> /\ strip(c) # <<>>)
          => (resp'.code = "OK"
              /\ \E doc \in documents' :
                    /\ documents' = documents \cup {doc}
                    /\ doc \notin documents
                    /\ doc.organization_id = activeOrg[u]
                    /\ doc.created_by = u)]_vars

\* C6: there is at most one membership per (user, organization) pair, and an
\* invitation of a user who already has one changes that membership's role to the
\* requested role, creates no second one and touches no other pair.
C6_MembershipUnique ==
    [][/\ \A k \in DOMAIN memberships : Len(memberships'[k]) <= 1
       /\ (resp'.op = "inviteUserToOrganization" /\ resp'.code = "OK")
            => \A u \in Users, o \in OrgIds, e \in EmailArgs, r \in RoleArgs :
                    InviteUserToOrganization(u, o, e, r)
                    => /\ memberships'[<<UserByEmail(e), o>>] = <<r>>
                       /\ \A k \in DOMAIN memberships :
                            k # <<UserByEmail(e), o>> => memberships'[k] = memberships[k]]_vars

\* an invitation has just changed the role of an existing membership
C6_Witness ==
    /\ resp.op = "inviteUserToOrganization"
    /\ resp.code = "OK"
    /\ resp.value[4] = FALSE
    /\ memberships[<<resp.value[1], resp.value[2]>>] = <<MEMBER>>

\* C7: the active-organization lookup fails with NoActiveOrganization when no id is
\* set, with NotAMember when the id is set and the user has no membership in that
\* organization, and otherwise returns the id.
C7_ActiveOrganizationLookup ==
    \A u \in Users :
        LET r == require_active_organization(u)
            g == get_user_active_organization(u) IN
        /\ activeOrg[u] = None
            => (~r.ok /\ r.err = "NoActiveOrganization" /\ ~g.ok /\ g.err = "NoActiveOrganization")
        /\ (activeOrg[u] # None /\ ~IsMember(u, activeOrg[u]))
            => (~r.ok /\ r.err = "NotAMember" /\ ~g.ok /\ g.err = "NotAMember")
        /\ (activeOrg[u] # None /\ IsMember(u, activeOrg[u]))
            => (r.ok /\ r.value = activeOrg[u] /\ g.ok /\ g.value = activeOrg[u])

\* a request has just been refused because the membership behind the active
\* organization was removed after it was set
C7_Witness ==
    /\ resp.op = "createDocument"
    /\ resp.err = "NotAMember"
    /\ \E u \in Users : activeOrg[u] # None /\ ~IsMember(u, activeOrg[u])
    /\ \E u \in Users : activeOrg[u] = None

\* C8: setActiveOrganization fails with NotAMember and leaves the active
\* organization id as it was when the user has no membership in the organization,
\* and sets the id to the organization when the user has one.
C8_SetActiveOrganization ==
    [][resp'.op = "setActiveOrganization"
        => \A u \in Users, o \in OrgArgs :
              SetActiveOrganization(u, o)
              => IF ~IsMember(u, o)
                 THEN resp'.code = "PERMISSION_DENIED" /\ resp'.err = "NotAMember"
                      /\ activeOrg' = activeOrg
                 ELSE resp'.code = "OK" /\ activeOrg' = [activeOrg EXCEPT ![u] = o]]_vars

\* a user with an active organization has just been refused another one
C8_Witness ==
    /\ resp.op = "setActiveOrganization"
    /\ resp.err = "NotAMember"
    /\ \E u \in Users : activeOrg[u] # None /\ \E o \in OrgIds : ~IsMember(u, o)

\* C9: require_organization_admin fails with NotAMember when the pair has no
\* membership and with InsufficientRole when it has one whose role is not ADMIN.
C9_AdminFailuresDistinct ==
    \A u \in Users, o \in OrgArgs :
        /\ ~IsMember(u, o) => require_organization_admin(u, o) = Denied("NotAMember")
        /\ (IsMember(u, o) /\ ~HasRole(u, o, ADMIN))
            => require_organization_admin(u, o) = Denied("InsufficientRole")

\* an invitation by a non-member has just been refused while some pair is MEMBER
C9_Witness ==
    /\ resp.op = "inviteUserToOrganization"
    /\ resp.err = "NotAMember"
    /\ \E u \in Users, o \in OrgIds : HasRole(u, o, MEMBER)

\* C2: askDocumentAiQuestion writes a Conversation entry only in the request whose
\* provider call returned text: a request whose context retrieval, provider
\* dispatch or provider call fails ends with the entries as they were, and an
\* entry is written whole, with the answer the provider call returned.
C2_NoEntryWithoutAnswer ==
    [][/\ Len(conversations') > Len(conversations)
            => /\ req.pc = "persist"
               /\ Len(conversations') = Len(conversations) + 1
               /\ conversations'[Len(conversations')].answer = req.answer
               /\ SubSeq(conversations', 1, Len(conversations)) = conversations
               /\ resp'.code = "OK"
       /\ (req'.pc = "persist" /\ req.pc # "persist")
            => /\ req.pc = "calling"
               /\ \E t \in ProviderTexts :
                    AskProviderReturn([kind |-> "text", text |-> t]) /\ req'.answer = strip(t)
       /\ \A result \in BackendResults :
            (AskProviderReturn(result) /\ result.kind # "text")
            => (req' = Idle /\ conversations' = conversations
                /\ resp'.code \in {"LLM_ERROR", "NOT_IMPLEMENTED"})
       /\ (AskDispatch /\ AskOutcomeBeforeCall(req.document, strip(req.question)).raised)
            => (req' = Idle /\ conversations' = conversations /\ resp'.code = "LLM_ERROR")
       /\ (req.pc # "idle" /\ req' = Idle /\ resp'.code # "OK")
            => conversations' = conversations]_vars

\* a provider call has just failed while an earlier entry is on record
C2_Witness ==
    /\ resp.op = "askDocumentAiQuestion"
    /\ resp.err = "ProviderError"
    /\ req = Idle
    /\ Len(conversations) = 1

C10_ProvideContext ==
    \A d \in DocArgs :
        LET context == get_document_context(d)
            provided == provide_document_context(d) IN
        /\ provided.raised <=> context.type = "error"
        /\ context.type = "error" <=> ~(\E doc \in documents : doc.id = d)
        /\ provided.raised => provided.exception = "ValueError"
        /\ ~provided.raised => provided.value = format_context_for_mcp(context)

\* a question has just failed for want of context: its document was deleted
\* after the request's own lookup
C10_Witness ==
    /\ resp.op = "askDocumentAiQuestion"
    /\ resp.err = "ContextUnavailable"
    /\ documents = {}
    /\ nextDocId > 1

\* C11: when the document given to ask_question does not exist, ask_question
\* raises the very failure provide_document_context raised, and the request ends
\* there with that message, without a backend call being started.
C11_MissingDocumentAborts ==
    [][/\ (req.pc = "llm" /\ ~LLMServiceInit.raised)
            => \A d \in DocArgs :
                    ~DocumentExists(d)
                    => /\ provide_document_context(d).raised
                       /\ ask_question(LLMServiceInit.value, d, strip(req.question)).raised
                       /\ ask_question(LLMServiceInit.value, d, strip(req.question))
                            = provide_document_context(d)
       /\ (req.pc = "llm" /\ ~DocumentExists(req.document) /\ ~LLMServiceInit.raised /\ AskDispatch)
            => /\ req' = Idle
               /\ resp'.code = "LLM_ERROR"
               /\ resp'.err = "ContextUnavailable"
               /\ resp'.value = <<"Error calling LLM:", provide_document_context(req.document).value>>]_vars

\* a question to the gemini backend has just failed for want of context
C11_Witness ==
    /\ resp.op = "askDocumentAiQuestion"
    /\ resp.err = "ContextUnavailable"
    /\ resp.value = <<"Error calling LLM:", <<"Document", 1, "not found">>>>
    /\ settings.provider = "gemini"
    /\ req = Idle

\* C12: when the configured provider identifier is none of openai, anthropic and
\* gemini, ask_question fails without a backend call being started, and for a
\* document that exists the failure is UnsupportedProvider.
C12_UnsupportedProvider ==
    [][/\ (req.pc = "llm" /\ ~LLMServiceInit.raised /\ settings.provider \notin Providers)
            => \A d \in DocArgs :
                    /\ ask_question(LLMServiceInit.value, d, strip(req.question)).raised
                    /\ DocumentExists(d)
                        => ask_question(LLMServiceInit.value, d, strip(req.question))
                            = Raised("ValueError", <<"Unsupported LLM provider:", settings.provider>>)
       /\ (req.pc = "llm" /\ ~LLMServiceInit.raised /\ settings.provider \notin Providers
                /\ AskDispatch)
            => /\ req' = Idle
               /\ resp'.code = "LLM_ERROR"
               /\ DocumentExists(req.document) => resp'.err = "UnsupportedProvider"]_vars

\* a question about an existing document has just failed on the provider identifier
C12_Witness ==
    /\ resp.op = "askDocumentAiQuestion"
    /\ resp.err = "UnsupportedProvider"
    /\ settings.provider = "llama"
    /\ DocumentExists(1)
    /\ req = Idle

\* C13 as stated: with no API key configured no request is accepted and then
\* failed for the missing key.
C13_KeyAbsenceIsStartupFailure ==
    ~settings.api_key => (req.pc = "idle" /\ resp.err # "MissingApiKey")

\* C13 amended: with no API key configured the system runs, a request that passes
\* authentication, document lookup, membership check and validation is accepted,
\* and it then fails with LLM_ERROR for the missing key, when the service is
\* constructed, before a backend call is started and with no entry written.
C13_KeyAbsencePerCall ==
    [][/\ LLMServiceInit.raised <=> ~settings.api_key
       /\ (req.pc = "idle" /\ ~settings.api_key)
            => \A u \in Users, d \in DocArgs, q \in QuestionArgs :
                    (AskDocumentAIQuestionChecks(u, d, q).code = "OK" /\ AskBegin(u, d, q))
                    => req'.pc = "llm"
       /\ (req.pc = "llm" /\ ~settings.api_key /\ AskDispatch)
            => /\ req' = Idle
               /\ resp'.code = "LLM_ERROR"
               /\ resp'.err = "MissingApiKey"
               /\ resp'.value = <<"Error calling LLM:", LLMServiceInit.value>>
               /\ conversations' = conversations]_vars

\* an accepted question about an existing document has just failed for the missing key
C13_Witness ==
    /\ ~settings.api_key
    /\ resp.op = "askDocumentAiQuestion"
    /\ resp.err = "MissingApiKey"
    /\ DocumentExists(1)
    /\ req = Idle

\* the default model of each provider: the one settings.py names for openai,
\* the adapters' own for anthropic and gemini
ProviderDefaultModel ==
    [b \in Providers |-> IF b = "openai" THEN "gpt-4-turbo-preview" ELSE AdapterDefaultModel[b]]

\* C14: when LLM_MODEL is not set, the model name sent to a backend is that
\* provider's default model.
C14_ProviderDefaultModel ==
    (req.pc = "calling" /\ settings.environ.LLM_MODEL = Unset)
        => req.model = ProviderDefaultModel[req.backend]

\* C19: a missing client library leaves the adapter as ImportError and the request
\* as NOT_IMPLEMENTED (ProviderUnavailable); any other failure of the call leaves
\* the adapter as an Exception whose message ends with the original message and
\* the request as LLM_ERROR (ProviderError) carrying that message.
C19_DistinctProviderFailures ==
    [][req.pc = "calling"
        => \A result \in BackendResults :
                AskProviderReturn(result)
                => LET outcome == CallBackend(req.backend, result) IN
                   /\ result.kind = "ImportError"
                        => /\ outcome.raised /\ outcome.exception = "ImportError"
                           /\ resp'.code = "NOT_IMPLEMENTED"
                           /\ resp'.err = "ProviderUnavailable"
                   /\ result.kind = "Exception"
                        => /\ outcome.raised /\ outcome.exception = "Exception"
                           /\ outcome.value[Len(outcome.value)] = result.text[1]
                           /\ resp'.code = "LLM_ERROR"
                           /\ resp'.err = "ProviderError"
                           /\ resp'.value = <<"Error calling LLM:", outcome.value>>
                   /\ result.kind # "text" => req' = Idle]_vars

\* the anthropic client library has just been found missing
C19_Witness ==
    /\ resp.op = "askDocumentAiQuestion"
    /\ resp.code = "NOT_IMPLEMENTED"
    /\ resp.err = "ProviderUnavailable"
    /\ settings.provider = "anthropic"
    /\ req = Idle

\* C20: a request starts at most one backend call, to the backend the provider
\* identifier names; once the call is made the request only goes on to write its
\* entry or ends, and a failed call ends it.
C20_SingleBackendCall ==
    [][/\ (req'.pc = "llm" /\ req.pc # "llm") => req.pc = "idle"
       /\ (req'.pc = "calling" /\ req.pc # "calling")
            => /\ req.pc = "llm"
               /\ req'.backend = lower(settings.provider)
               /\ req'.backend \in Providers
       /\ req.pc = "calling"
            => /\ req' = req \/ req'.pc \in {"persist", "idle"}
               /\ \A result \in BackendResults :
                    (result.kind # "text" /\ AskProviderReturn(result)) => req' = Idle
       /\ req.pc = "persist" => (req' = req \/ req'.pc = "idle")]_vars

\* a call to the gemini backend has just failed and was not made again
C20_Witness ==
    /\ resp.op = "askDocumentAiQuestion"
    /\ resp.err = "ProviderError"
    /\ resp.value = <<"Error calling LLM:", <<"Gemini", "API error:", "timed out">>>>
    /\ settings.provider = "gemini"
    /\ req = Idle

\* C15: a request naming an organization or a document that does not exist is
\* answered NOT_FOUND: setActiveOrganization and inviteUserToOrganization for the
\* organization, document, aiConversations and askDocumentAiQuestion for the
\* document.
C15_MissingIsNotFound ==
    [][/\ resp'.op = "setActiveOrganization"
            => \A u \in Users, o \in OrgArgs :
                    (SetActiveOrganization(u, o) /\ o \notin organizations)
                    => resp'.code = "NOT_FOUND"
       /\ resp'.op = "inviteUserToOrganization"
            => \A u \in Users, o \in OrgArgs, e \in EmailArgs, r \in RoleArgs :
                    (InviteUserToOrganization(u, o, e, r) /\ o \notin organizations)
                    => resp'.code = "NOT_FOUND"
       /\ \A u \in Users, d \in DocArgs :
            ~DocumentExists(d)
            => /\ resolve_document(u, d).code = "NOT_FOUND"
               /\ resolve_ai_conversations(u, d).code = "NOT_FOUND"
               /\ \A q \in QuestionArgs :
                    AskDocumentAIQuestionChecks(u, d, q).code = "NOT_FOUND"]_vars

\* C16: createDocument by an ADMIN of the active organization with a title or a
\* content that is empty after trimming is refused as INVALID_INPUT with nothing
\* written, and a member's question that is empty after trimming is refused as
\* INVALID_INPUT.
C16_EmptyInputRejected ==
    [][/\ resp'.op = "createDocument"
            => \A u \in Users, t \in TitleArgs, c \in ContentArgs :
                    (CreateDocument(u, t, c) /\ activeOrg[u] # None
                        /\ HasRole(u, activeOrg[u], ADMIN)
                        /\ (strip(t) = <<>> \/ strip(c) = <<>>))
                    => (resp'.code = "INVALID_INPUT" /\ documents' = documents
                        /\ conversations' = conversations)
       /\ \A u \in Users, d \in DocArgs, q \in QuestionArgs :
            (DocumentExists(d) /\ IsMember(u, DocumentById(d).organization_id)
                /\ strip(q) = <<>>)
            => AskDocumentAIQuestionChecks(u, d, q).code = "INVALID_INPUT"]_vars

\* C17: a document, the conversation entries of a document and an answer about a
\* document are returned to a user, and a question is sent on to the service for
\* a user, only in a request that found that user a member of the document's
\* organization; a member of either role is given them.
C17_MembershipBeforeDisclosure ==
    [][/\ (resp'.op = "document" /\ resp'.code = "OK")
            => \A u \in Callers, d \in DocArgs :
                    QueryDocument(u, d)
                    => (DocumentExists(d) /\ IsMember(u, DocumentById(d).organization_id))
       /\ (resp'.op = "aiConversations" /\ resp'.code = "OK")
            => \A u \in Callers, d \in DocArgs :
                    QueryAIConversations(u, d)
                    => (DocumentExists(d) /\ IsMember(u, DocumentById(d).organization_id))
       /\ (resp'.op = "documents" /\ resp'.code = "OK")
            => \A u \in Callers :
                    QueryDocuments(u)
                    => \A i \in 1..Len(resp'.value) : IsMember(u, resp'.value[i].organization_id)
       /\ (req.pc = "idle" /\ req'.pc # "idle")
            => /\ req'.pc = "llm"
               /\ DocumentExists(req'.document)
               /\ IsMember(req'.user, DocumentById(req'.document).organization_id)
       /\ (req.pc # "idle" /\ req'.pc # "idle")
            => (req'.user = req.user /\ req'.document = req.document)
       /\ (AskPersist /\ resp'.code = "OK")
            => (resp'.value.user = req.user /\ resp'.value.document = req.document)
       /\ \A u \in Users, d \in DocArgs :
            (DocumentExists(d) /\ IsMember(u, DocumentById(d).organization_id))
            => /\ resolve_document(u, d) = Success("document", DocumentById(d))
               /\ resolve_ai_conversations(u, d).code = "OK"
               /\ \A q \in QuestionArgs :
                    strip(q) # <<>> => AskDocumentAIQuestionChecks(u, d, q).code = "OK"]_vars

\* the entries of a document have just been returned while a user who is no
\* member of its organization exists
C17_Witness ==
    /\ resp.op = "aiConversations"
    /\ resp.code = "OK"
    /\ Len(resp.value) > 0
    /\ \E u \in Users :
            ~IsMember(u, DocumentById(resp.value[1].document).organization_id)

\* C18: the documents query returns each document of the caller's active
\* organization once and no document of any other organization.
C18_DocumentsOfActiveOrganization ==
    [][(resp'.op = "documents" /\ resp'.code = "OK")
        => \A u \in Users :
                QueryDocuments(u)
                => /\ {resp'.value[i] : i \in 1..Len(resp'.value)}
                        = {doc \in documents : doc.organization_id = activeOrg[u]}
                   /\ Len(resp'.value)
                        = Cardinality({doc \in documents : doc.organization_id = activeOrg[u]})]_vars

\* the documents query has just returned a document while its caller is also a
\* member of another organization that holds a document
C18_Witness ==
    /\ resp.op = "documents"
    /\ resp.code = "OK"
    /\ Len(resp.value) = 1
    /\ \E u \in Users :
            /\ activeOrg[u] = resp.value[1].organization_id
            /\ \E doc \in documents :
                    doc.organization_id # activeOrg[u] /\ IsMember(u, doc.organization_id)

\* C23: when two inviteUserToOrganization requests for the same invitee and
\* organization have run side by side, in whatever order their steps fell, the
\* pair has exactly one membership, and its role is the role one of the two asked
\* for; at no moment does a pair have two memberships.
C23_ConcurrentInvites ==
    /\ \A k \in DOMAIN memberships : Len(memberships[k]) <= 1
    /\ \A p, q \in InviteProcs :
            (p # q /\ invites[p].pc = "done" /\ invites[q].pc = "done"
                /\ InvitePair(p) = InvitePair(q))
            => /\ Len(memberships[InvitePair(p)]) = 1
               /\ memberships[InvitePair(p)][1] \in {invites[p].role, invites[q].role}

\* both requests have returned; the second found no membership, lost the INSERT
\* to the first and then changed the role the first had written
C23_Witness ==
    /\ invites[1].pc = "done"
    /\ invites[2].pc = "done"
    /\ InvitePair(1) = InvitePair(2)
    /\ invites[1].created
    /\ invites[2].retried
    /\ invites[1].role # invites[2].role
    /\ memberships[InvitePair(2)] = <<invites[2].role>>

\* C24: every conversation entry is persisted while its user is a member of the
\* document's organization; if the membership is removed while the provider call
\* is in flight, no entry is recorded.
C24_MemberWhenPersisted ==
    [][(req.pc = "persist" /\ req'.pc = "idle" /\ conversations' # conversations)
        => IsMember(req.user, DocumentById(req.document).organization_id)]_vars

\* C25: every conversation entry refers to an existing document, and a request
\* whose document was deleted between its existence check and its persist step
\* fails and stores no entry.
C25_EntriesReferToDocuments ==
    /\ [](\A i \in 1..Len(conversations) : DocumentExists(conversations[i].document))
    /\ [][(req.pc = "persist" /\ req'.pc = "idle" /\ ~DocumentExists(req.document))
            => (conversations' = conversations /\ resp'.code # "OK")]_vars

\* a request that got its answer from the provider has failed at the persist
\* step because the document was gone, and nothing is stored
C25_Witness ==
    /\ resp.op = "askDocumentAiQuestion"
    /\ resp.err = "IntegrityError"
    /\ documents = {}
    /\ conversations = <<>>
    /\ nextDocId > 1

\* C26: every stored conversation entry has a non-empty question and a
\* non-empty answer, whatever text the provider returned.
C26_NonEmptyQuestionAndAnswer ==
    \A i \in 1..Len(conversations) :
        /\ conversations[i].question # <<>>
        /\ conversations[i].answer # <<>>

HasAdmin(o) == \E u \in Users : HasRole(u, o, ADMIN)

\* C28: an organization that has at least one ADMIN membership still has at
\* least one after any inviteUserToOrganization request, the request in which an
\* ADMIN names their own e-mail with role MEMBER included.
C28_AdminRemains ==
    [][\A o \in OrgIds :
        (/\ memberships' # memberships
         /\ HasAdmin(o)
         /\ \E u \in Callers, o2 \in OrgArgs, e \in EmailArgs, r \in RoleArgs :
                InviteUserToOrganization(u, o2, e, r))
        => HasAdmin(o)']_vars

\* how many times the entry e stands in the list
Occurrences(list, e) == Cardinality({i \in 1..Len(list) : list[i] = e})

C21_AppendOnly ==
    [][\/ conversations' = conversations
       \/ /\ Len(conversations') = Len(conversations) + 1
          /\ SubSeq(conversations', 1, Len(conversations)) = conversations
          /\ documents' = documents
       \/ /\ documents' \subseteq documents
          /\ documents' # documents
          /\ conversations' =
                SelectSeq(conversations, LAMBDA c : \E doc \in documents' : doc.id = c.document)]_vars

\* two requests of the same user on the same document have each left an entry,
\* with different answers
C21_Witness ==
    /\ Len(conversations) = 2
    /\ conversations[1].user = conversations[2].user
    /\ conversations[1].document = conversations[2].document
    /\ conversations[1].answer # conversations[2].answer
    /\ resp.op = "askDocumentAiQuestion"
    /\ resp.code = "OK"

\* a step of a query or mutation of the two schemas
ApiRequest ==
    \/ \E u \in Callers : QueryOrganizations(u)
    \/ Queries
    \/ OrganizationRequests
    \/ QuestionRequests

\* C27: a request that ends in an error (UNAUTHORIZED, NOT_FOUND,
\* PERMISSION_DENIED, INVALID_INPUT, USER_NOT_FOUND, LLM_ERROR, NOT_IMPLEMENTED
\* or an unhandled exception) leaves memberships, organizations, active
\* organization ids, documents and conversations as they were.
C27_ErrorsChangeNothing ==
    [][(dbvars' # dbvars /\ resp'.code \notin {"OK", "none"}) => ~ApiRequest]_vars

\* a mutation has been refused after its permission check had passed, in a
\* database that holds memberships, a document and a conversation
C27_Witness ==
    /\ resp.op = "inviteUserToOrganization"
    /\ resp.code = "INVALID_INPUT"
    /\ conversations # <<>>
    /\ documents # {}

\* C30: for a caller who is not logged in, every query and mutation of the
\* organizations and documents schemas answers UNAUTHORIZED, whether or not the
\* organization, user or document it names exists, and the request changes no
\* table and starts no provider call.
C30_UnauthenticatedRefused ==
    /\ [](/\ resolve_organizations(Anonymous).code = "UNAUTHORIZED"
          /\ resolve_documents(Anonymous).code = "UNAUTHORIZED"
          /\ \A d \in DocArgs :
                /\ resolve_document(Anonymous, d).code = "UNAUTHORIZED"
                /\ resolve_ai_conversations(Anonymous, d).code = "UNAUTHORIZED"
                /\ \A q \in QuestionArgs :
                        AskDocumentAIQuestionChecks(Anonymous, d, q).code = "UNAUTHORIZED"
          /\ \A o \in OrgArgs :
                /\ SetActiveOrganizationOutcome(Anonymous, o).code = "UNAUTHORIZED"
                /\ \A e \in EmailArgs, r \in RoleArgs :
                        InviteUserToOrganizationOutcome(Anonymous, o, e, r).code = "UNAUTHORIZED"
          /\ \A t \in TitleArgs, c \in ContentArgs :
                CreateDocumentOutcome(Anonymous, t, c).code = "UNAUTHORIZED")
    /\ [][(dbvars' # dbvars \/ req' # req \/ resp'.code # "UNAUTHORIZED") => ~AnonymousRequest]_vars

\* a question sent without a login about a document that exists and has a
\* conversation has been refused, and no request is under way
C30_Witness ==
    /\ resp.op = "askDocumentAiQuestion"
    /\ resp.code = "UNAUTHORIZED"
    /\ documents # {}
    /\ conversations # <<>>
    /\ req = Idle

\* C29: for a user who is no member of a document's organization, the outcome
\* of document(id), of aiConversations(id) and of askDocumentAiQuestion(id, q) is
\* the same in two states that differ only in the title, the content or the
\* stored conversations of that document.
C29_NonMemberLearnsNothing ==
    [][\A u \in Users, d \in DocArgs :
        (/\ documents' # documents \/ conversations' # conversations
         /\ memberships' = memberships
         /\ DocumentExists(d)
         /\ DocumentExists(d)'
         /\ DocumentById(d)'.organization_id = DocumentById(d).organization_id
         /\ ~IsMember(u, DocumentById(d).organization_id))
        => /\ resolve_document(u, d)' = resolve_document(u, d)
           /\ resolve_ai_conversations(u, d)' = resolve_ai_conversations(u, d)
           /\ \A q \in QuestionArgs :
                AskDocumentAIQuestionChecks(u, d, q)' = AskDocumentAIQuestionChecks(u, d, q)]_vars

\* a non-member has been refused a document whose title and content were
\* edited and which has a conversation
C29_Witness ==
    /\ resp.op = "document"
    /\ resp.code = "PERMISSION_DENIED"
    /\ \E doc \in documents :
            /\ ~IsMember(2, doc.organization_id)
            /\ doc.title = <<"U">>
            /\ doc.content = <<"D">>
            /\ \E i \in 1..Len(conversations) : conversations[i].document = doc.id

====
